---- MODULE Spec2Model ----
(***************************************************************************)
(* State-machine model of the `rollup` command of slingshot-stats          *)
(* (src/main.go): one invocation, from argument validation to the last     *)
(* output file.  The run is cut into steps at the places where the code    *)
(* can return; the deal pass runs one deal per step.                       *)
(*                                                                         *)
(* Conventions                                                             *)
(*  - Go maps are functions whose DOMAIN is the set of keys present.       *)
(*  - Go slices are sequences.                                             *)
(*  - A deal id (the string key of the deal map) is a sequence of          *)
(*    one-character strings, so that strconv.ParseInt can be computed.     *)
(*  - Piece sizes are counted in GiB to stay inside TLC's integers.        *)
(***************************************************************************)
EXTENDS Integers, Sequences, FiniteSets, TLC

(***************************************************************************)
(* Program constants                                                       *)
(***************************************************************************)
defaultPhaseStart == 1623840
recoveryStart == 1381920
EpochsInDay == 2880
MinDurationDays == 360
RecoveryDurationDays == 499
SameCidCap == 10
RequiredArgs == 3
tempExcludedWallet == "f17ia7m5mvizrdug3sqtevqw3tifiqvxqr3kdaeuq"
excludedDataset == "landsat-8"

(***************************************************************************)
(* Bounds of the model                                                     *)
(***************************************************************************)
\* deals in a snapshot of the families that enumerate every map order
MaxDeals == 2
\* deals in a snapshot of the one-participant, one-piece-cid family
MaxCapDeals == 11

(***************************************************************************)
(* Go map helpers                                                          *)
(***************************************************************************)
EmptyMap == << >>

MapPut(m, k, v) == [x \in (DOMAIN m) \cup {k} |-> IF x = k THEN v ELSE m[x]]

\* m[k] of a Go map with integer values: the zero value when k is absent
MapGetInt(m, k) == IF k \in DOMAIN m THEN m[k] ELSE 0

\* len(m)
MapLen(m) == Cardinality(DOMAIN m)

SetMax(S) == IF S = {} THEN 0 ELSE CHOOSE x \in S : \A y \in S : y <= x

RECURSIVE SumOver(_, _)
SumOver(f, S) ==
    IF S = {} THEN 0
    ELSE LET x == CHOOSE y \in S : TRUE IN f[x] + SumOver(f, S \ {x})

Range(s) == {s[i] : i \in 1..Len(s)}

(***************************************************************************)
(* strconv.ParseInt(s, 10, 64) with the error dropped, as the comparator   *)
(* of the deal sort uses it: the value of an optionally signed run of      *)
(* decimal digits, and 0 for an empty string or one holding any other      *)
(* character.  (The clamping of values beyond 64 bits is outside the ids   *)
(* of the model, which have at most two characters.)                       *)
(***************************************************************************)
Digits == <<"0", "1", "2", "3", "4", "5", "6", "7", "8", "9">>

IsDigit(c) == \E i \in 1..Len(Digits) : Digits[i] = c

DigitVal(c) == (CHOOSE i \in 1..Len(Digits) : Digits[i] = c) - 1

RECURSIVE DigitsValue(_, _)
DigitsValue(s, acc) ==
    IF s = << >> THEN acc
    ELSE DigitsValue(Tail(s), acc * 10 + DigitVal(Head(s)))

ParseIntOrZero(s) ==
    LET signed == s # << >> /\ Head(s) \in {"+", "-"}
        body   == IF signed THEN Tail(s) ELSE s
    IN IF body = << >> \/ \E i \in 1..Len(body) : ~IsDigit(body[i])
       THEN 0
       ELSE IF signed /\ Head(s) = "-"
            THEN 0 - DigitsValue(body, 0)
            ELSE DigitsValue(body, 0)

\* strconv.FormatInt(n, 10) for 0 <= n < 100: how the ledger node keys the
\* deal map it returns
FormatInt(n) ==
    IF n < 10 THEN <<Digits[n + 1]>>
    ELSE <<Digits[(n \div 10) + 1], Digits[(n % 10) + 1]>>

(***************************************************************************)
(* sort.Slice(s, less) for slices of at most 12 elements, as the Go        *)
(* release named in go.mod (1.15) runs it: quickSort_func skips its        *)
(* partitioning loop when the slice has at most 12 elements, makes one     *)
(* Shell pass with gap 6 and finishes with an insertion sort.  less[x, y]  *)
(* is the comparator's answer for the elements at the two indices.  The    *)
(* function is deterministic and, by its documentation, not stable.        *)
(***************************************************************************)
Swap(s, i, j) == [s EXCEPT ![i] = s[j], ![j] = s[i]]

SortSlice(s, less) ==
    LET n == Len(s)
        Less(x, y) == less[x, y]
        RECURSIVE ShellPass(_, _)
        ShellPass(t, i) ==
            IF i > n THEN t
            ELSE ShellPass(IF Less(t[i], t[i - 6])
                           THEN Swap(t, i, i - 6) ELSE t, i + 1)
        RECURSIVE SiftDown(_, _)
        SiftDown(t, j) ==
            IF j > 1 /\ Less(t[j], t[j - 1])
            THEN SiftDown(Swap(t, j, j - 1), j - 1)
            ELSE t
        RECURSIVE InsertionSort(_, _)
        InsertionSort(t, i) ==
            IF i > n THEN t ELSE InsertionSort(SiftDown(t, i), i + 1)
    IN IF n > 1 THEN InsertionSort(ShellPass(s, 7), 2) ELSE s

(***************************************************************************)
(* Deals, identities and the inputs of one run                             *)
(***************************************************************************)
\* api.MarketDeal: Proposal and State flattened into one record
MarketDeal(ss, slash, start, end, client, provider, pieceCid, size, verified, label) ==
    [SectorStartEpoch |-> ss, SlashEpoch |-> slash,
     StartEpoch |-> start, EndEpoch |-> end,
     Client |-> client, Provider |-> provider,
     PieceCID |-> pieceCid, PieceSize |-> size,
     VerifiedDeal |-> verified, Label |-> label]

\* StateAccountKey's answer for a client handle that does not resolve
NoKey == "<error>"

\* cid.Parse(label): the labels of the model that are content identifiers,
\* each with its String() form and the String() form of its CIDv1
ParsedLabels ==
    [QmPayloadA |-> [str |-> "QmPayloadA", b32 |-> "bafyPayloadA"],
     bafyPayloadB |-> [str |-> "bafyPayloadB", b32 |-> "bafyPayloadB"]]

PayloadCid(label) ==
    IF label \in DOMAIN ParsedLabels THEN ParsedLabels[label].str ELSE "unknown"

PayloadCidB32(label) ==
    IF label \in DOMAIN ParsedLabels THEN ParsedLabels[label].b32 ELSE "unknown"

\* one element of the "payload" array of the project list
ProjectEntry(addr, proj, dsets) ==
    [address |-> addr, project |-> proj, curatedDataset |-> dsets]

VARIABLES
    env,                \* the inputs of the run: arguments, lists, ledger
    pc,                 \* position of the run in rollup.Action
    currentPhaseStart,  \* package variable, overridden by --phasestart-epoch
    knownAddrMap,       \* wallet -> project id
    knownRestoreClients,\* set of wallets of the recovery list
    resolvedWallets,    \* package variable: client handle -> wallet
    resolverCalls,      \* client handle -> calls of StateAccountKey made for it
    orderedDealList,    \* ids of the live deals
    idx,                \* next position of the deal pass in orderedDealList
    recoveredDeals,
    projStats,
    projDealLists,
    grandTotals,
    files               \* output artifacts: name -> payload written so far

vars == <<env, pc, currentPhaseStart, knownAddrMap, knownRestoreClients,
          resolvedWallets, resolverCalls, orderedDealList, idx, recoveredDeals,
          projStats, projDealLists, grandTotals, files>>

\* contents of an output file that was created and not written yet
Created == "<created>"

(***************************************************************************)
(* getAndParseProjectList: the loop over the entries of the project list.  *)
(* An entry one of whose curatedDataset values is "landsat-8" is skipped   *)
(* (continue knownProject); any other entry sets ret[address] = project.   *)
(***************************************************************************)
EntrySkipped(p) ==
    \E i \in 1..Len(p.curatedDataset) : p.curatedDataset[i] = excludedDataset

RECURSIVE ParseProjectList(_, _)
ParseProjectList(proj, ret) ==
    IF proj = << >> THEN ret
    ELSE LET p == Head(proj)
         IN ParseProjectList(Tail(proj),
                IF EntrySkipped(p) THEN ret
                ELSE MapPut(ret, p.address, p.project))

(***************************************************************************)
(* The deal pass                                                           *)
(***************************************************************************)
\* mutant of IsLive: a sector start epoch of 0 passes for started
IsLive_ZeroStart(dealInfo, height) ==
    ~(\/ dealInfo.SectorStartEpoch < 0
      \/ dealInfo.SectorStartEpoch > height
      \/ dealInfo.SlashEpoch > -1)

\* the filter of the loop that builds orderedDealList: the deal is kept
IsLive(dealInfo, height) ==
    ~(\/ dealInfo.SectorStartEpoch <= 0
      \/ dealInfo.SectorStartEpoch > height
      \/ dealInfo.SlashEpoch > -1)

\* mutant of DealLess: the two parsed ids compared the wrong way round
DealLess_SwappedIds(deals, idi, idj) ==
    LET di == deals[idi]
        dj == deals[idj]
    IN IF di.SectorStartEpoch # dj.SectorStartEpoch
       THEN di.SectorStartEpoch < dj.SectorStartEpoch
       ELSE IF di.StartEpoch # dj.StartEpoch
            THEN di.StartEpoch < dj.StartEpoch
            ELSE ParseIntOrZero(idj) < ParseIntOrZero(idi)

\* the comparator handed to sort.Slice for orderedDealList, on two deal ids
DealLess(deals, idi, idj) ==
    LET di == deals[idi]
        dj == deals[idj]
    IN IF di.SectorStartEpoch # dj.SectorStartEpoch
       THEN di.SectorStartEpoch < dj.SectorStartEpoch
       ELSE IF di.StartEpoch # dj.StartEpoch
            THEN di.StartEpoch < dj.StartEpoch
            ELSE ParseIntOrZero(idi) < ParseIntOrZero(idj)

\* mutant of IsRecovered: the recovery check made after the project lookup
IsRecovered_KnownOnly(dealInfo, clientAddr, restoreClients) ==
    /\ clientAddr \in DOMAIN knownAddrMap
    /\ clientAddr \in restoreClients
    /\ dealInfo.SectorStartEpoch >= recoveryStart
    /\ dealInfo.EndEpoch - dealInfo.StartEpoch > EpochsInDay * RecoveryDurationDays

\* mutant of IsRecovered: a deal of exactly 499 days is recovered
IsRecovered_InclusiveDuration(dealInfo, clientAddr, restoreClients) ==
    /\ clientAddr \in restoreClients
    /\ dealInfo.SectorStartEpoch >= recoveryStart
    /\ dealInfo.EndEpoch - dealInfo.StartEpoch >= EpochsInDay * RecoveryDurationDays

\* the deal is appended to recoveredDeals
IsRecovered(dealInfo, clientAddr, restoreClients) ==
    /\ clientAddr \in restoreClients
    /\ dealInfo.SectorStartEpoch >= recoveryStart
    /\ dealInfo.EndEpoch - dealInfo.StartEpoch > EpochsInDay * RecoveryDurationDays

\* mutant of TempExcluded: the wallet is skipped whatever the sector start
TempExcluded_AnyEpoch(dealInfo, clientAddr) ==
    clientAddr = tempExcludedWallet

\* TEMP WORKAROUND: the deal is skipped before the project lookup
TempExcluded(dealInfo, clientAddr) ==
    /\ clientAddr = tempExcludedWallet
    /\ dealInfo.SectorStartEpoch >= recoveryStart

\* mutant of BeforePhase: the recovery threshold taken for the phase start
BeforePhase_RecoveryStart(dealInfo, phaseStart) ==
    dealInfo.SectorStartEpoch < recoveryStart

\* the deal is skipped as started before the current phase
BeforePhase(dealInfo, phaseStart) ==
    dealInfo.SectorStartEpoch < phaseStart

\* mutant of TooShort: a deal of exactly 360 days is turned away
TooShort_Inclusive(dealInfo) ==
    dealInfo.EndEpoch - dealInfo.StartEpoch <= EpochsInDay * MinDurationDays

\* anything under 360 days: not qualified
TooShort(dealInfo) ==
    dealInfo.EndEpoch - dealInfo.StartEpoch < EpochsInDay * MinDurationDays

\* mutant of CapReached: the cap one deal later
CapReached_OffByOne(timesSeenAllTime) ==
    timesSeenAllTime > SameCidCap

\* the deal is skipped on the all-time count of its piece cid
CapReached(timesSeenAllTime) ==
    timesSeenAllTime >= SameCidCap

\* the comparator handed to sort.Slice for a project's deal list
DealListLess(x, y) ==
    y.PaddedSize < x.PaddedSize

NewProjectStats(projID) ==
    [ProjectID |-> projID, DataSizeMaxProvider |-> 0, HighestCidDealCount |-> 0,
     DataSize |-> 0, NumCids |-> 0, NumDeals |-> 0, NumProviders |-> 0,
     ClientStats |-> EmptyMap, dataPerProvider |-> EmptyMap,
     timesSeenPieceCid |-> EmptyMap, timesSeenPieceCidAllTime |-> EmptyMap]

NewClientStats(client) ==
    [Client |-> client, DataSize |-> 0, NumCids |-> 0, NumDeals |-> 0,
     NumProviders |-> 0, providers |-> {}, cids |-> {}]

NewGrandTotals ==
    [UniqueCids |-> 0, UniqueProviders |-> 0, UniqueProjects |-> 0,
     UniqueClients |-> 0, TotalDeals |-> 0, TotalBytes |-> 0,
     FilplusTotalDeals |-> 0, FilplusTotalBytes |-> 0,
     seenProject |-> {}, seenClient |-> {}, seenProvider |-> {},
     seenPieceCid |-> {}]

RecoveredDeal(dealID, dealInfo, clientAddr) ==
    [DealID |-> dealID, ClientAddress |-> clientAddr,
     MinerID |-> dealInfo.Provider, PieceCID |-> dealInfo.PieceCID,
     Label |-> dealInfo.Label, PayloadCIDb32 |-> PayloadCidB32(dealInfo.Label),
     PaddedPieceSize |-> dealInfo.PieceSize, DataSize |-> dealInfo.PieceSize,
     DealStartEpoch |-> dealInfo.StartEpoch, DealEndEpoch |-> dealInfo.EndEpoch,
     RecoveryType |-> 1]

IndividualDeal(dealID, dealInfo, projID, clientAddr) ==
    [DealID |-> dealID, ProjectID |-> projID, Client |-> clientAddr,
     MinerID |-> dealInfo.Provider, PayloadCID |-> PayloadCid(dealInfo.Label),
     PaddedSize |-> dealInfo.PieceSize,
     DealStartEpoch |-> dealInfo.SectorStartEpoch]

\* mutant of FoldClient: the wallet's deal count is left alone
FoldClient_NoCount(cs, dealInfo) ==
    [cs EXCEPT !.DataSize = @ + dealInfo.PieceSize,
               !.providers = @ \cup {dealInfo.Provider},
               !.cids = @ \cup {dealInfo.PieceCID}]

\* the updates of the loop body to the wallet's statistics
FoldClient(cs, dealInfo) ==
    [cs EXCEPT !.DataSize = @ + dealInfo.PieceSize,
               !.providers = @ \cup {dealInfo.Provider},
               !.cids = @ \cup {dealInfo.PieceCID},
               !.NumDeals = @ + 1]

\* the updates of the loop body to the project's statistics, the wallet's
\* entry excepted
FoldProject(ps, dealInfo) ==
    [ps EXCEPT
       !.DataSize = @ + dealInfo.PieceSize,
       !.dataPerProvider =
           MapPut(@, dealInfo.Provider,
                  MapGetInt(@, dealInfo.Provider) + dealInfo.PieceSize),
       !.timesSeenPieceCid =
           MapPut(@, dealInfo.PieceCID, MapGetInt(@, dealInfo.PieceCID) + 1),
       !.NumDeals = @ + 1]

\* the updates of the loop body to grandTotals after the cap
FoldTotals(gt, dealInfo, clientAddr) ==
    [gt EXCEPT
       !.seenClient = @ \cup {clientAddr},
       !.TotalBytes = @ + dealInfo.PieceSize,
       !.seenProvider = @ \cup {dealInfo.Provider},
       !.seenPieceCid = @ \cup {dealInfo.PieceCID},
       !.TotalDeals = @ + 1,
       !.FilplusTotalDeals = IF dealInfo.VerifiedDeal THEN @ + 1 ELSE @,
       !.FilplusTotalBytes =
           IF dealInfo.VerifiedDeal THEN @ + dealInfo.PieceSize ELSE @]

\* the part of the loop body after the gates: the deal is folded into the
\* totals of the run, of its project and of its wallet, and appended to the
\* project's deal list.  ps is the project's entry after the all-time count.
FoldDeal(st, dealID, dealInfo, projID, clientAddr, ps) ==
    LET cs == IF clientAddr \in DOMAIN ps.ClientStats
              THEN ps.ClientStats[clientAddr]
              ELSE NewClientStats(clientAddr)
        ps1 == [FoldProject(ps, dealInfo) EXCEPT
                  !.ClientStats = MapPut(@, clientAddr, FoldClient(cs, dealInfo))]
        dl == IF projID \in DOMAIN st.projDealLists
              THEN st.projDealLists[projID] ELSE << >>
    IN [st EXCEPT
          !.grandTotals = FoldTotals(@, dealInfo, clientAddr),
          !.projStats = MapPut(@, projID, ps1),
          !.projDealLists =
              MapPut(@, projID,
                     Append(dl, IndividualDeal(dealID, dealInfo, projID, clientAddr)))]

\* mutant of CountDeal: the all-time count is made after the phase and
\* duration gates
CountDeal_TallyAfterGates(st, dealID, dealInfo, clientAddr) ==
    IF clientAddr \notin DOMAIN knownAddrMap THEN st
    ELSE
      LET projID == knownAddrMap[clientAddr]
          ps0 == IF projID \in DOMAIN st.projStats
                 THEN st.projStats[projID] ELSE NewProjectStats(projID)
          seen == MapGetInt(ps0.timesSeenPieceCidAllTime, dealInfo.PieceCID) + 1
          ps == [ps0 EXCEPT !.timesSeenPieceCidAllTime =
                                MapPut(@, dealInfo.PieceCID, seen)]
          st1 == [st EXCEPT !.projStats = MapPut(@, projID, ps)]
      IN IF BeforePhase(dealInfo, currentPhaseStart) THEN st
         ELSE IF TooShort(dealInfo) THEN st
         ELSE LET st2 == [st1 EXCEPT !.grandTotals.seenProject = @ \cup {projID}]
              IN IF CapReached(seen) THEN st2
                 ELSE FoldDeal(st2, dealID, dealInfo, projID, clientAddr, ps)

\* the part of the loop body from the project lookup to the cap
CountDeal(st, dealID, dealInfo, clientAddr) ==
    IF clientAddr \notin DOMAIN knownAddrMap THEN st
    ELSE
      LET projID == knownAddrMap[clientAddr]
          ps0 == IF projID \in DOMAIN st.projStats
                 THEN st.projStats[projID] ELSE NewProjectStats(projID)
          seen == MapGetInt(ps0.timesSeenPieceCidAllTime, dealInfo.PieceCID) + 1
          ps == [ps0 EXCEPT !.timesSeenPieceCidAllTime =
                                MapPut(@, dealInfo.PieceCID, seen)]
          st1 == [st EXCEPT !.projStats = MapPut(@, projID, ps)]
      IN IF BeforePhase(dealInfo, currentPhaseStart) THEN st1
         ELSE IF TooShort(dealInfo) THEN st1
         ELSE LET st2 == [st1 EXCEPT !.grandTotals.seenProject = @ \cup {projID}]
              IN IF CapReached(seen) THEN st2
                 ELSE FoldDeal(st2, dealID, dealInfo, projID, clientAddr, ps)

\* api.StateAccountKey for a client handle, called for the k-th time in the
\* run: the node's answer to the first call and to the later ones
StateAccountKey(handle, k) ==
    IF k = 1 THEN env.accountKey[handle] ELSE env.laterKey[handle]

\* mutant of ClassifyStep: resolvedWallets is never consulted
ClassifyStep_NoCache(st, dealID) ==
    LET dealInfo == env.deals[dealID]
        found == FALSE
        called == MapGetInt(st.resolverCalls, dealInfo.Client) + 1
        key == IF found THEN st.resolvedWallets[dealInfo.Client]
               ELSE StateAccountKey(dealInfo.Client, called)
        st0 == IF found THEN st
               ELSE [st EXCEPT !.resolverCalls = MapPut(@, dealInfo.Client, called)]
    IN IF key = NoKey THEN st0
       ELSE
         LET st1 == [st0 EXCEPT !.resolvedWallets = MapPut(@, dealInfo.Client, key)]
             st2 == IF IsRecovered(dealInfo, key, knownRestoreClients)
                    THEN [st1 EXCEPT !.recoveredDeals =
                                        Append(@, RecoveredDeal(dealID, dealInfo, key))]
                    ELSE st1
         IN IF TempExcluded(dealInfo, key) THEN st2
            ELSE CountDeal(st2, dealID, dealInfo, key)

\* mutant of ClassifyStep: the error of StateAccountKey is not looked at
ClassifyStep_ErrorIgnored(st, dealID) ==
    LET dealInfo == env.deals[dealID]
        found == dealInfo.Client \in DOMAIN st.resolvedWallets
        called == MapGetInt(st.resolverCalls, dealInfo.Client) + 1
        key == IF found THEN st.resolvedWallets[dealInfo.Client]
               ELSE StateAccountKey(dealInfo.Client, called)
        st0 == IF found THEN st
               ELSE [st EXCEPT !.resolverCalls = MapPut(@, dealInfo.Client, called)]
    IN IF FALSE THEN st0
       ELSE
         LET st1 == [st0 EXCEPT !.resolvedWallets = MapPut(@, dealInfo.Client, key)]
             st2 == IF IsRecovered(dealInfo, key, knownRestoreClients)
                    THEN [st1 EXCEPT !.recoveredDeals =
                                        Append(@, RecoveredDeal(dealID, dealInfo, key))]
                    ELSE st1
         IN IF TempExcluded(dealInfo, key) THEN st2
            ELSE CountDeal(st2, dealID, dealInfo, key)

\* one iteration of the loop over orderedDealList, on the record st of the
\* structures the loop updates
ClassifyStep(st, dealID) ==
    LET dealInfo == env.deals[dealID]
        found == dealInfo.Client \in DOMAIN st.resolvedWallets
        called == MapGetInt(st.resolverCalls, dealInfo.Client) + 1
        key == IF found THEN st.resolvedWallets[dealInfo.Client]
               ELSE StateAccountKey(dealInfo.Client, called)
        st0 == IF found THEN st
               ELSE [st EXCEPT !.resolverCalls = MapPut(@, dealInfo.Client, called)]
    IN IF key = NoKey THEN st0
       ELSE
         LET st1 == [st0 EXCEPT !.resolvedWallets = MapPut(@, dealInfo.Client, key)]
             st2 == IF IsRecovered(dealInfo, key, knownRestoreClients)
                    THEN [st1 EXCEPT !.recoveredDeals =
                                        Append(@, RecoveredDeal(dealID, dealInfo, key))]
                    ELSE st1
         IN IF TempExcluded(dealInfo, key) THEN st2
            ELSE CountDeal(st2, dealID, dealInfo, key)

(***************************************************************************)
(* Output artifacts                                                        *)
(***************************************************************************)
OutDir == <<"outDir">>
ClientListFile == <<"client_list.json">>
RestoreListFile == <<"restore_client_list.json">>
ClientStatsFile == <<"client_stats.json">>
BasicStatsFile == <<"basic_stats.json">>
RecoveryListFile == <<"recovery_deallist.json">>
DealListFile(proj) == <<"deals_list_", proj, ".json">>

\* the fields of competitionTotal that the JSON encoder writes
ExportedTotals(gt) ==
    [UniqueCids |-> gt.UniqueCids, UniqueProviders |-> gt.UniqueProviders,
     UniqueProjects |-> gt.UniqueProjects, UniqueClients |-> gt.UniqueClients,
     TotalDeals |-> gt.TotalDeals, TotalBytes |-> gt.TotalBytes,
     FilplusTotalDeals |-> gt.FilplusTotalDeals,
     FilplusTotalBytes |-> gt.FilplusTotalBytes]

\* the fields of clientAggregateStats that the JSON encoder writes
ExportedClientStats(cs) ==
    [Client |-> cs.Client, DataSize |-> cs.DataSize, NumCids |-> cs.NumCids,
     NumDeals |-> cs.NumDeals, NumProviders |-> cs.NumProviders]

\* the fields of projectAggregateStats that the JSON encoder writes
ExportedProjectStats(ps) ==
    [ProjectID |-> ps.ProjectID, DataSizeMaxProvider |-> ps.DataSizeMaxProvider,
     HighestCidDealCount |-> ps.HighestCidDealCount, DataSize |-> ps.DataSize,
     NumCids |-> ps.NumCids, NumDeals |-> ps.NumDeals,
     NumProviders |-> ps.NumProviders,
     ClientStats |-> [c \in DOMAIN ps.ClientStats |->
                         ExportedClientStats(ps.ClientStats[c])]]

\* the unique counts of grandTotals, read off the tracking sets
FinalizeTotals(gt) ==
    [gt EXCEPT !.UniqueCids = Cardinality(gt.seenPieceCid),
               !.UniqueClients = Cardinality(gt.seenClient),
               !.UniqueProviders = Cardinality(gt.seenProvider),
               !.UniqueProjects = Cardinality(gt.seenProject)]

\* mutant of FinalizeProjectStats: the highest count per piece cid is read
\* off the all-time tally
FinalizeProjectStats_AllTimeMax(ps) ==
    [ps EXCEPT
       !.NumCids = MapLen(ps.timesSeenPieceCid),
       !.NumProviders = MapLen(ps.dataPerProvider),
       !.HighestCidDealCount =
           SetMax({@} \cup {ps.timesSeenPieceCidAllTime[c] :
                              c \in DOMAIN ps.timesSeenPieceCidAllTime}),
       !.DataSizeMaxProvider =
           SetMax({@} \cup {ps.dataPerProvider[m] : m \in DOMAIN ps.dataPerProvider}),
       !.ClientStats =
           [c \in DOMAIN ps.ClientStats |->
               [ps.ClientStats[c] EXCEPT
                  !.NumCids = Cardinality(ps.ClientStats[c].cids),
                  !.NumProviders = Cardinality(ps.ClientStats[c].providers)]]]

\* the loop that fills the derived fields of one project's statistics
FinalizeProjectStats(ps) ==
    [ps EXCEPT
       !.NumCids = MapLen(ps.timesSeenPieceCid),
       !.NumProviders = MapLen(ps.dataPerProvider),
       !.HighestCidDealCount =
           SetMax({@} \cup {ps.timesSeenPieceCid[c] : c \in DOMAIN ps.timesSeenPieceCid}),
       !.DataSizeMaxProvider =
           SetMax({@} \cup {ps.dataPerProvider[m] : m \in DOMAIN ps.dataPerProvider}),
       !.ClientStats =
           [c \in DOMAIN ps.ClientStats |->
               [ps.ClientStats[c] EXCEPT
                  !.NumCids = Cardinality(ps.ClientStats[c].cids),
                  !.NumProviders = Cardinality(ps.ClientStats[c].providers)]]]

(***************************************************************************)
(* Inputs of the model                                                     *)
(***************************************************************************)
W1 == "f1wallet1"
W2 == "f1wallet2"
W3 == "f3wallet3"
H1 == "f0101"
H2 == "f0102"
M1 == "f01001"
M2 == "f01002"
CidA == "baga6ea4seaqA"
CidB == "baga6ea4seaqB"
ProjP == "projP"
ProjQ == "projQ"

\* height of the selected tipset
tsHeight == defaultPhaseStart + 1
\* a --phasestart-epoch below the recovery start
lowPhaseStart == recoveryStart - 1
\* proposal start epochs
StartA == recoveryStart - 20
StartB == recoveryStart - 10

MinDuration == EpochsInDay * MinDurationDays
RecoveryDuration == EpochsInDay * RecoveryDurationDays

SectorStarts ==
    {-1, 0, recoveryStart - 1, recoveryStart, defaultPhaseStart - 1,
     defaultPhaseStart, tsHeight, tsHeight + 1}

Durations == {MinDuration - 1, MinDuration, RecoveryDuration, RecoveryDuration + 1}

\* a deal that passes every gate under the default thresholds
GoodDeal(client, provider, pieceCid, size) ==
    MarketDeal(defaultPhaseStart, -1, StartA, StartA + RecoveryDuration + 1,
               client, provider, pieceCid, size, FALSE, "QmPayloadA")

BaseEnv ==
    [args |-> <<"out", "projects.json", "restore.json">>,
     outDirExists |-> FALSE,
     fault |-> "none",
     phaseFlag |-> defaultPhaseStart,
     height |-> tsHeight,
     projList |-> <<ProjectEntry(W1, ProjP, << >>),
                    ProjectEntry(W2, ProjQ, << >>),
                    ProjectEntry(tempExcludedWallet, ProjP, << >>)>>,
     restoreList |-> <<W1, W3, tempExcludedWallet>>,
     accountKey |-> [h \in {H1, H2} |-> IF h = H1 THEN W1 ELSE W2],
     laterKey |-> [h \in {H1, H2} |-> IF h = H1 THEN W1 ELSE W2],
     deals |-> EmptyMap]

SeqsUpTo(S, n) == UNION {[1..k -> S] : k \in 0..n}

\* the deal map with ids FormatInt(1) .. FormatInt(n) and deals kind[1] .. kind[n]
NumberedDeals(kind) ==
    [id \in {FormatInt(i) : i \in 1..Len(kind)} |->
        kind[CHOOSE i \in 1..Len(kind) : FormatInt(i) = id]]

\* one deal, every gate at and around its boundary, each kind of wallet
GateEnvs ==
    {[BaseEnv EXCEPT
        !.phaseFlag = pf,
        !.accountKey = [h \in {H1, H2} |-> key],
        !.laterKey = [h \in {H1, H2} |-> key],
        !.deals = [id \in {<<"7">>} |->
                     MarketDeal(ss, slash, StartA, StartA + dur, H1, M1, CidA, 32,
                                ver, IF ver THEN "bafyPayloadB" ELSE "not a cid")]] :
        pf \in {defaultPhaseStart, lowPhaseStart},
        key \in {W1, W2, W3, tempExcludedWallet, NoKey},
        ss \in SectorStarts, slash \in {-1, 0}, dur \in Durations,
        ver \in BOOLEAN}

\* project lists of at most MaxRegistry entries; one qualifying deal per wallet
MaxRegistry == 2

RegistryEntries ==
    {ProjectEntry(a, p, d) :
        a \in {W1, W2}, p \in {ProjP, ProjQ},
        d \in {<< >>, <<excludedDataset>>, <<"sentinel-2", excludedDataset>>}}

RegistryEnvs ==
    {[BaseEnv EXCEPT
        !.projList = pl,
        !.deals = NumberedDeals(<<GoodDeal(H1, M1, CidA, 32),
                                  GoodDeal(H2, M1, CidA, 32)>>)] :
        pl \in SeqsUpTo(RegistryEntries, MaxRegistry)}

\* two qualifying deals under every answer of the resolver
ResolverEnvs ==
    {[BaseEnv EXCEPT
        !.accountKey = ak,
        !.laterKey = ak,
        !.restoreList = rl,
        !.deals = NumberedDeals(<<GoodDeal(H1, M1, CidA, 32),
                                  GoodDeal(h, M1, CidA, 32)>>)] :
        ak \in [{H1, H2} -> {W1, W2, W3, NoKey}],
        rl \in {<< >>, <<W1, W3>>},
        h \in {H1, H2}}

\* at most MaxDeals qualifying deals over two wallets, providers, piece cids
\* and sizes
AggregateKinds ==
    {MarketDeal(defaultPhaseStart, -1, StartA, StartA + MinDuration,
                h, m, c, sz, sz = 64, "QmPayloadA") :
        h \in {H1, H2}, m \in {M1, M2}, c \in {CidA, CidB}, sz \in {32, 64}}

AggregateEnvs ==
    {[BaseEnv EXCEPT !.deals = NumberedDeals(kind)] :
        kind \in SeqsUpTo(AggregateKinds, MaxDeals)}

\* at most MaxDeals deals of one wallet that differ in the sort key and in
\* being terminated; two of the ids are not numbers
OrderIds == {<<"2">>, <<"1", "0">>, <<"x">>, <<"y">>}

OrderKinds ==
    {MarketDeal(ss, slash, st, st + MinDuration, H1, M1, CidA, 32, FALSE, "QmPayloadA") :
        ss \in {defaultPhaseStart, tsHeight}, st \in {StartA, StartB},
        slash \in {-1, recoveryStart}}

OrderEnvs ==
    {[BaseEnv EXCEPT !.deals = d] :
        d \in UNION {[ids -> OrderKinds] :
                        ids \in {x \in SUBSET OrderIds : Cardinality(x) <= MaxDeals}}}

\* n deals of one project and one piece cid: the first p started before the
\* phase, those below the b-th are the larger ones, and the proposal start
\* epochs fall as the ids rise; with two, the deals alternate between two
\* wallets of the project
CapDeals(n, p, b, two) ==
    NumberedDeals(
        [i \in 1..n |->
            MarketDeal(IF i <= p THEN defaultPhaseStart - 1 ELSE defaultPhaseStart,
                       -1, StartB - i, StartB - i + MinDuration,
                       IF two /\ i % 2 = 0 THEN H2 ELSE H1, M1, CidA,
                       IF i < b THEN 64 ELSE 32, FALSE, "QmPayloadA")])

CapEnvs ==
    UNION {{[BaseEnv EXCEPT
               !.projList = IF two
                            THEN <<ProjectEntry(W1, ProjP, << >>),
                                   ProjectEntry(W2, ProjP, << >>)>>
                            ELSE @,
               !.deals = CapDeals(n, p, b, two)] :
                p \in 0..n, b \in 1..(n + 1), two \in BOOLEAN} : n \in 1..MaxCapDeals}

\* n deals of one wallet and one piece cid, the first p of them a day short
\* of 360 days and ahead of the others in the order of the pass
ShortCapEnvs ==
    UNION {{[BaseEnv EXCEPT
               !.deals = NumberedDeals(
                   [i \in 1..n |->
                       MarketDeal(defaultPhaseStart, -1,
                                  IF i <= p THEN StartA - EpochsInDay - i ELSE StartB - i,
                                  (IF i <= p THEN StartA - EpochsInDay - i ELSE StartB - i)
                                     + MinDuration - (IF i <= p THEN EpochsInDay ELSE 0),
                                  H1, M1, CidA, 32, FALSE, "QmPayloadA")])] :
                p \in 0..n} : n \in 1..MaxCapDeals}

\* three qualifying deals whose handles get one answer from the resolver's
\* first call and another from its later calls
CacheEnvs ==
    {[BaseEnv EXCEPT
        !.projList = <<ProjectEntry(W1, ProjP, << >>), ProjectEntry(W2, ProjP, << >>)>>,
        !.accountKey = ak,
        !.laterKey = lk,
        !.deals = NumberedDeals([i \in 1..3 |-> GoodDeal(hs[i], M1, CidA, 32)])] :
        ak \in [{H1, H2} -> {W1, NoKey}],
        lk \in [{H1, H2} -> {W1, W2, NoKey}],
        hs \in [1..3 -> {H1, H2}]}

\* runs that fail before the deal pass
FaultEnvs ==
    {[BaseEnv EXCEPT
        !.args = a, !.outDirExists = ex, !.fault = f, !.phaseFlag = pf,
        !.deals = NumberedDeals(<<GoodDeal(H1, M1, CidA, 32)>>)] :
        a \in {<<"out", "projects.json">>,
               <<"out", "projects.json", "restore.json">>,
               <<"out", "", "restore.json">>},
        ex \in BOOLEAN,
        f \in {"none", "projlist", "restore", "api", "tipset", "deals"},
        pf \in {0, defaultPhaseStart}}

Envs ==
    GateEnvs \cup RegistryEnvs \cup ResolverEnvs \cup AggregateEnvs
        \cup OrderEnvs \cup CapEnvs \cup ShortCapEnvs \cup CacheEnvs
        \cup FaultEnvs

(***************************************************************************)
(* The order in which `range deals` visits the deal map.  Go leaves it     *)
(* unspecified: every order for the maps of at most MaxDeals + 1 deals,    *)
(* and the ascending and descending orders of the numeric ids for the      *)
(* larger maps of the one-piece-cid family.                                *)
(***************************************************************************)
Perms(S) ==
    {f \in [1..Cardinality(S) -> S] : \A i, j \in DOMAIN f : f[i] = f[j] => i = j}

MapOrders(m) ==
    LET n == Cardinality(DOMAIN m)
    IN IF n <= MaxDeals + 1 THEN Perms(DOMAIN m)
       ELSE {[i \in 1..n |-> FormatInt(i)], [i \in 1..n |-> FormatInt(n + 1 - i)]}

(***************************************************************************)
(* The run                                                                 *)
(***************************************************************************)
Init ==
    /\ env \in Envs
    /\ pc = "start"
    /\ currentPhaseStart = defaultPhaseStart
    /\ knownAddrMap = EmptyMap
    /\ knownRestoreClients = {}
    /\ resolvedWallets = EmptyMap
    /\ resolverCalls = EmptyMap
    /\ orderedDealList = << >>
    /\ idx = 1
    /\ recoveredDeals = << >>
    /\ projStats = EmptyMap
    /\ projDealLists = EmptyMap
    /\ grandTotals = NewGrandTotals
    /\ files = EmptyMap

\* argument check, --phasestart-epoch, and the output directory
ArgsOk(args) ==
    ~(\/ Len(args) # RequiredArgs
      \/ args[1] = ""
      \/ args[2] = ""
      \/ args[3] = "")

Start ==
    /\ pc = "start"
    /\ IF ~ArgsOk(env.args)
       THEN /\ pc' = "failed"
            /\ UNCHANGED <<currentPhaseStart, files>>
       ELSE /\ currentPhaseStart' =
                   IF env.phaseFlag > 0 THEN env.phaseFlag ELSE currentPhaseStart
            /\ IF env.outDirExists
               THEN pc' = "failed" /\ UNCHANGED files
               ELSE pc' = "projlist" /\ files' = MapPut(files, OutDir, Created)
    /\ UNCHANGED <<env, knownAddrMap, knownRestoreClients, resolvedWallets, resolverCalls,
                   orderedDealList, idx, recoveredDeals, projStats,
                   projDealLists, grandTotals>>

\* getAndParseProjectList
GetAndParseProjectList ==
    /\ pc = "projlist"
    /\ IF env.fault = "projlist"
       THEN pc' = "failed" /\ UNCHANGED <<files, knownAddrMap>>
       ELSE LET ret == ParseProjectList(env.projList, EmptyMap)
            IN /\ files' = MapPut(files, ClientListFile, env.projList)
               /\ IF MapLen(ret) = 0
                  THEN pc' = "failed" /\ UNCHANGED knownAddrMap
                  ELSE pc' = "restore" /\ knownAddrMap' = ret
    /\ UNCHANGED <<env, currentPhaseStart, knownRestoreClients, resolvedWallets, resolverCalls,
                   orderedDealList, idx, recoveredDeals, projStats,
                   projDealLists, grandTotals>>

\* getAndParseRestore
GetAndParseRestore ==
    /\ pc = "restore"
    /\ IF env.fault = "restore"
       THEN pc' = "failed" /\ UNCHANGED <<files, knownRestoreClients>>
       ELSE /\ files' = MapPut(files, RestoreListFile, env.restoreList)
            /\ knownRestoreClients' = Range(env.restoreList)
            /\ pc' = "query"
    /\ UNCHANGED <<env, currentPhaseStart, knownAddrMap, resolvedWallets, resolverCalls,
                   orderedDealList, idx, recoveredDeals, projStats,
                   projDealLists, grandTotals>>

\* GetFullNodeAPI, the three os.Create calls, the tipset and StateMarketDeals
OpenAndQuery ==
    /\ pc = "query"
    /\ IF env.fault = "api"
       THEN pc' = "failed" /\ UNCHANGED files
       ELSE /\ files' = MapPut(MapPut(MapPut(files, ClientStatsFile, Created),
                                      BasicStatsFile, Created),
                               RecoveryListFile, Created)
            /\ pc' = IF env.fault \in {"tipset", "deals"} THEN "failed" ELSE "filter"
    /\ recoveredDeals' = << >>
    /\ projStats' = EmptyMap
    /\ projDealLists' = EmptyMap
    /\ grandTotals' = NewGrandTotals
    /\ UNCHANGED <<env, currentPhaseStart, knownAddrMap, knownRestoreClients,
                   resolvedWallets, resolverCalls, orderedDealList, idx>>

\* the loop over the deal map that keeps the ids of the live deals
RECURSIVE FilterLive(_, _, _)
FilterLive(order, deals, height) ==
    IF order = << >> THEN << >>
    ELSE IF IsLive(deals[Head(order)], height)
         THEN <<Head(order)>> \o FilterLive(Tail(order), deals, height)
         ELSE FilterLive(Tail(order), deals, height)

FilterDeals ==
    /\ pc = "filter"
    /\ \E order \in MapOrders(env.deals) :
          orderedDealList' = FilterLive(order, env.deals, env.height)
    /\ pc' = "sort"
    /\ UNCHANGED <<env, currentPhaseStart, knownAddrMap, knownRestoreClients,
                   resolvedWallets, resolverCalls, idx, recoveredDeals, projStats,
                   projDealLists, grandTotals, files>>

\* sort.Slice(orderedDealList, ...)
SortedDealList(list, deals) ==
    SortSlice(list, [a \in Range(list), b \in Range(list) |-> DealLess(deals, a, b)])

SortDeals ==
    /\ pc = "sort"
    /\ orderedDealList' = SortedDealList(orderedDealList, env.deals)
    /\ idx' = 1
    /\ pc' = IF Len(orderedDealList) = 0 THEN "lists" ELSE "classify"
    /\ UNCHANGED <<env, currentPhaseStart, knownAddrMap, knownRestoreClients,
                   resolvedWallets, resolverCalls, recoveredDeals, projStats, projDealLists,
                   grandTotals, files>>

\* the structures the deal pass updates, as one record
PassState ==
    [resolvedWallets |-> resolvedWallets, resolverCalls |-> resolverCalls,
     recoveredDeals |-> recoveredDeals,
     projStats |-> projStats, projDealLists |-> projDealLists,
     grandTotals |-> grandTotals]

\* one iteration of the loop over orderedDealList
ClassifyDeal ==
    /\ pc = "classify"
    /\ idx <= Len(orderedDealList)
    /\ LET st == ClassifyStep(PassState, orderedDealList[idx])
       IN /\ resolvedWallets' = st.resolvedWallets
          /\ resolverCalls' = st.resolverCalls
          /\ recoveredDeals' = st.recoveredDeals
          /\ projStats' = st.projStats
          /\ projDealLists' = st.projDealLists
          /\ grandTotals' = st.grandTotals
    /\ idx' = idx + 1
    /\ pc' = IF idx = Len(orderedDealList) THEN "lists" ELSE "classify"
    /\ UNCHANGED <<env, currentPhaseStart, knownAddrMap, knownRestoreClients,
                   orderedDealList, files>>

\* sort.Slice(dl, ...) of one project's deal list
SortedProjectList(dl) ==
    SortSlice(dl, [x \in Range(dl), y \in Range(dl) |-> DealListLess(x, y)])

\* one iteration of the loop over projDealLists: the list is sorted in place
\* and written to its file
EmitDealList ==
    /\ pc = "lists"
    /\ \E proj \in DOMAIN projDealLists :
          /\ DealListFile(proj) \notin DOMAIN files
          /\ LET dl == SortedProjectList(projDealLists[proj])
             IN /\ projDealLists' = [projDealLists EXCEPT ![proj] = dl]
                /\ files' = MapPut(files, DealListFile(proj),
                                   [Epoch |-> env.height, Endpoint |-> "DEAL_LIST",
                                    Payload |-> dl])
    /\ UNCHANGED <<env, pc, currentPhaseStart, knownAddrMap, knownRestoreClients,
                   resolvedWallets, resolverCalls, orderedDealList, idx, recoveredDeals,
                   projStats, grandTotals>>

\* basic_stats.json
WriteBasicStats ==
    /\ pc = "lists"
    /\ \A proj \in DOMAIN projDealLists : DealListFile(proj) \in DOMAIN files
    /\ grandTotals' = FinalizeTotals(grandTotals)
    /\ files' = MapPut(files, BasicStatsFile,
                       [Epoch |-> env.height, Endpoint |-> "COMPETITION_TOTALS",
                        Payload |-> ExportedTotals(grandTotals')])
    /\ pc' = "recovery"
    /\ UNCHANGED <<env, currentPhaseStart, knownAddrMap, knownRestoreClients,
                   resolvedWallets, resolverCalls, orderedDealList, idx, recoveredDeals,
                   projStats, projDealLists>>

\* recovery_deallist.json
WriteRecoveryList ==
    /\ pc = "recovery"
    /\ files' = MapPut(files, RecoveryListFile,
                       [Epoch |-> env.height, Endpoint |-> "RECOVERED_DEALS_LIST",
                        Payload |-> recoveredDeals])
    /\ pc' = "clientstats"
    /\ UNCHANGED <<env, currentPhaseStart, knownAddrMap, knownRestoreClients,
                   resolvedWallets, resolverCalls, orderedDealList, idx, recoveredDeals,
                   projStats, projDealLists, grandTotals>>

\* client_stats.json
WriteClientStats ==
    /\ pc = "clientstats"
    /\ projStats' = [p \in DOMAIN projStats |-> FinalizeProjectStats(projStats[p])]
    /\ files' = MapPut(files, ClientStatsFile,
                       [Epoch |-> env.height, Endpoint |-> "PROJECT_DEAL_STATS",
                        Payload |-> [p \in DOMAIN projStats |->
                                        ExportedProjectStats(projStats'[p])]])
    /\ pc' = "done"
    /\ UNCHANGED <<env, currentPhaseStart, knownAddrMap, knownRestoreClients,
                   resolvedWallets, resolverCalls, orderedDealList, idx, recoveredDeals,
                   projDealLists, grandTotals>>

Next ==
    \/ Start
    \/ GetAndParseProjectList
    \/ GetAndParseRestore
    \/ OpenAndQuery
    \/ FilterDeals
    \/ SortDeals
    \/ ClassifyDeal
    \/ EmitDealList
    \/ WriteBasicStats
    \/ WriteRecoveryList
    \/ WriteClientStats

Spec == Init /\ [][Next]_vars

(***************************************************************************)
(* Vocabulary of the properties                                            *)
(***************************************************************************)
AfterPass == pc \in {"lists", "recovery", "clientstats", "done"}

DealIds == DOMAIN env.deals

NotLiveIds ==
    {id \in DealIds : \/ env.deals[id].SectorStartEpoch <= 0
                      \/ env.deals[id].SectorStartEpoch > env.height
                      \/ env.deals[id].SlashEpoch >= 0}

LiveIds == DealIds \ NotLiveIds

Duration(id) == env.deals[id].EndEpoch - env.deals[id].StartEpoch

\* the wallet the deal is classified under in the order of orderedDealList:
\* the resolver's first answer for the deal's client handle or, when that
\* one failed and the deal is not the first of its handle, its later answer
WalletOf(id) ==
    LET h == env.deals[id].Client
        earlier == \E i, j \in 1..Len(orderedDealList) :
                      /\ i < j
                      /\ orderedDealList[j] = id
                      /\ env.deals[orderedDealList[i]].Client = h
    IN IF env.accountKey[h] # NoKey \/ ~earlier
       THEN env.accountKey[h] ELSE env.laterKey[h]

ListIds(dl) == {dl[i].DealID : i \in 1..Len(dl)}

\* ids of the deals of project p's deal list
CountedIdsOf(p) ==
    IF p \in DOMAIN projDealLists THEN ListIds(projDealLists[p]) ELSE {}

CountedIds == UNION {CountedIdsOf(p) : p \in DOMAIN projDealLists}

RecoveredIds == ListIds(recoveredDeals)

AllTimeTally(p, c) ==
    IF p \in DOMAIN projStats
    THEN MapGetInt(projStats[p].timesSeenPieceCidAllTime, c) ELSE 0

CountedTally(p, c) ==
    IF p \in DOMAIN projStats
    THEN MapGetInt(projStats[p].timesSeenPieceCid, c) ELSE 0

SizeOf == [id \in DealIds |-> env.deals[id].PieceSize]

WalletStatsOf(p) == IF p \in DOMAIN projStats THEN projStats[p].ClientStats ELSE EmptyMap

PosInOrder(id) == CHOOSE i \in 1..Len(orderedDealList) : orderedDealList[i] = id

(***************************************************************************)
(* C1: a deal whose sector start epoch is <= 0 or beyond the height of the *)
(* tipset, or whose slash epoch is >= 0, is in no output: not in the       *)
(* ordered list, the recovered deals or a deal list, and every counter,    *)
(* tracking set and all-time tally is accounted for by the other deals.    *)
(***************************************************************************)
C1_NotLiveExcluded ==
    LET liveCids == {env.deals[id].PieceCID : id \in LiveIds}
        liveProviders == {env.deals[id].Provider : id \in LiveIds}
        liveWallets == {WalletOf(id) : id \in LiveIds}
        liveBytes == SumOver(SizeOf, LiveIds)
        nLive == Cardinality(LiveIds)
    IN /\ NotLiveIds \cap (Range(orderedDealList) \cup RecoveredIds \cup CountedIds) = {}
       /\ Len(recoveredDeals) <= nLive
       /\ grandTotals.TotalDeals <= nLive
       /\ grandTotals.TotalBytes <= liveBytes
       /\ grandTotals.FilplusTotalDeals
             <= Cardinality({id \in LiveIds : env.deals[id].VerifiedDeal})
       /\ grandTotals.FilplusTotalBytes
             <= SumOver(SizeOf, {id \in LiveIds : env.deals[id].VerifiedDeal})
       /\ grandTotals.seenPieceCid \subseteq liveCids
       /\ grandTotals.seenProvider \subseteq liveProviders
       /\ grandTotals.seenClient \subseteq liveWallets
       /\ grandTotals.seenProject \subseteq
             {knownAddrMap[w] : w \in liveWallets \cap DOMAIN knownAddrMap}
       /\ DOMAIN projStats \subseteq
             {knownAddrMap[w] : w \in liveWallets \cap DOMAIN knownAddrMap}
       /\ SumOver([p \in DOMAIN projStats |->
                      SumOver(projStats[p].timesSeenPieceCidAllTime,
                              DOMAIN projStats[p].timesSeenPieceCidAllTime)],
                  DOMAIN projStats) <= nLive
       /\ \A p \in DOMAIN projStats :
             LET ps == projStats[p]
             IN /\ ps.NumDeals <= nLive
                /\ ps.DataSize <= liveBytes
                /\ DOMAIN ps.timesSeenPieceCid \subseteq liveCids
                /\ DOMAIN ps.timesSeenPieceCidAllTime \subseteq liveCids
                /\ DOMAIN ps.dataPerProvider \subseteq liveProviders
                /\ DOMAIN ps.ClientStats \subseteq liveWallets
                /\ \A w \in DOMAIN ps.ClientStats :
                      /\ ps.ClientStats[w].NumDeals <= nLive
                      /\ ps.ClientStats[w].DataSize <= liveBytes
                      /\ ps.ClientStats[w].cids \subseteq liveCids
                      /\ ps.ClientStats[w].providers \subseteq liveProviders

\* a finished run over a snapshot that holds a terminated deal beside a
\* counted one
C1_Witness ==
    /\ pc = "done"
    /\ \E id \in NotLiveIds : env.deals[id].SlashEpoch >= 0
    /\ grandTotals.TotalDeals > 0

(***************************************************************************)
(* C2: whenever a step counts a deal (a deal count or byte sum of the      *)
(* run, a project or a wallet changes, or a deal list grows), the deal     *)
(* under the cursor has sector start >= the phase start, lasts at least    *)
(* 360 days of epochs, and its project's all-time tally for its piece cid, *)
(* read after the step, is below 10.                                       *)
(***************************************************************************)
KnownProjects == {knownAddrMap[w] : w \in DOMAIN knownAddrMap}

\* the projects and wallets the project list names
ListedProjects == {env.projList[i].project : i \in 1..Len(env.projList)}

ListedWallets == {env.projList[i].address : i \in 1..Len(env.projList)}

\* the deal count and byte sum of wallet w under project p, 0 while absent
WalletCount(p, w) ==
    IF w \in DOMAIN WalletStatsOf(p)
    THEN <<WalletStatsOf(p)[w].NumDeals, WalletStatsOf(p)[w].DataSize>>
    ELSE <<0, 0>>

CountedMeasure ==
    <<grandTotals.TotalDeals, grandTotals.TotalBytes,
      [p \in ListedProjects |->
          IF p \in DOMAIN projStats
          THEN <<projStats[p].NumDeals, projStats[p].DataSize>> ELSE <<0, 0>>],
      [p \in ListedProjects |-> [w \in ListedWallets |-> WalletCount(p, w)]],
      [p \in ListedProjects |->
          IF p \in DOMAIN projDealLists THEN Len(projDealLists[p]) ELSE 0]>>

C2_CountedDealsQualify ==
    [][CountedMeasure' # CountedMeasure =>
          /\ pc = "classify"
          /\ idx <= Len(orderedDealList)
          /\ LET id == orderedDealList[idx]
                 d == env.deals[id]
             IN /\ d.SectorStartEpoch >= currentPhaseStart
                /\ d.EndEpoch - d.StartEpoch >= 360 * EpochsInDay
                /\ d.Client \in DOMAIN resolvedWallets'
                /\ resolvedWallets'[d.Client] \in DOMAIN knownAddrMap
                /\ LET p == knownAddrMap[resolvedWallets'[d.Client]]
                   IN /\ p \in DOMAIN projStats'
                      /\ d.PieceCID \in DOMAIN projStats'[p].timesSeenPieceCidAllTime
                      /\ projStats'[p].timesSeenPieceCidAllTime[d.PieceCID] < 10]_vars

\* nine deals of one project and piece cid have been seen and all nine are
\* counted
C2_Witness ==
    \E p \in DOMAIN projStats :
        \E c \in DOMAIN projStats[p].timesSeenPieceCid :
            /\ projStats[p].timesSeenPieceCid[c] = 9
            /\ projStats[p].timesSeenPieceCidAllTime[c] = 9

(***************************************************************************)
(* C3: after the deal pass, for a project and a piece cid all of whose     *)
(* live, resolvable deals pass the phase and duration gates and the        *)
(* temporary exclusion, the counted deals with that piece cid are the      *)
(* first min(n, 9) of the n in the order of the pass, and the all-time     *)
(* tally reads n; and no counted count of a piece cid, hence no            *)
(* max_same_cid_deals, exceeds 9.                                          *)
(***************************************************************************)
MembersOf(p, c) ==
    {id \in LiveIds : /\ WalletOf(id) \in DOMAIN knownAddrMap
                      /\ knownAddrMap[WalletOf(id)] = p
                      /\ env.deals[id].PieceCID = c}

OtherwiseQualifying(id) ==
    /\ env.deals[id].SectorStartEpoch >= currentPhaseStart
    /\ Duration(id) >= 360 * EpochsInDay
    /\ ~(/\ WalletOf(id) = tempExcludedWallet
         /\ env.deals[id].SectorStartEpoch >= recoveryStart)

FirstOf(S, k) ==
    {id \in S : Cardinality({o \in S : PosInOrder(o) < PosInOrder(id)}) < k}

Min(a, b) == IF a < b THEN a ELSE b

C3_CapBoundary ==
    AfterPass =>
      /\ \A p \in KnownProjects :
           \A c \in {env.deals[id].PieceCID : id \in DealIds} :
              LET members == MembersOf(p, c)
                  n == Cardinality(members)
                  counted == {id \in CountedIdsOf(p) : env.deals[id].PieceCID = c}
              IN (\A id \in members : OtherwiseQualifying(id)) =>
                    /\ counted = FirstOf(members, 9)
                    /\ Cardinality(counted) = Min(n, 9)
                    /\ CountedTally(p, c) = Min(n, 9)
                    /\ AllTimeTally(p, c) = n
      /\ \A p \in DOMAIN projStats :
           /\ projStats[p].HighestCidDealCount <= 9
           /\ \A c \in DOMAIN projStats[p].timesSeenPieceCid :
                 projStats[p].timesSeenPieceCid[c] <= 9

\* a finished run over eleven qualifying deals of one project and piece cid:
\* nine counted, the tally at eleven
C3_Witness ==
    /\ pc = "done"
    /\ \E p \in DOMAIN projStats :
         \E c \in DOMAIN projStats[p].timesSeenPieceCidAllTime :
            /\ Cardinality(MembersOf(p, c)) = 11
            /\ \A id \in MembersOf(p, c) : OtherwiseQualifying(id)
            /\ projStats[p].timesSeenPieceCidAllTime[c] = 11
            /\ projStats[p].HighestCidDealCount = 9
            /\ Len(projDealLists[p]) = 9

(***************************************************************************)
(* C4: after the deal pass, a live deal whose handle resolves is among the *)
(* recovered deals exactly when its wallet is in the recovery list, its    *)
(* sector start is >= the recovery start and it lasts more than 499 days   *)
(* of epochs, whatever the project list says of the wallet; and a deal of  *)
(* a wallet the project list does not map is in no deal list and leaves no *)
(* trace of its wallet in the totals or in any project's statistics.       *)
(***************************************************************************)
C4_RecoveryIndependent ==
    AfterPass =>
      \A id \in LiveIds :
         WalletOf(id) # NoKey =>
           /\ id \in RecoveredIds <=>
                 /\ WalletOf(id) \in Range(env.restoreList)
                 /\ env.deals[id].SectorStartEpoch >= recoveryStart
                 /\ Duration(id) > 499 * EpochsInDay
           /\ WalletOf(id) \notin DOMAIN knownAddrMap =>
                 /\ id \notin CountedIds
                 /\ WalletOf(id) \notin grandTotals.seenClient
                 /\ \A p \in DOMAIN projStats :
                       WalletOf(id) \notin DOMAIN projStats[p].ClientStats

\* a finished run with one deal recovered and not counted, its wallet
\* unknown to the project list, and another deal both recovered and counted
C4_Witness ==
    /\ pc = "done"
    /\ \E a, b \in RecoveredIds :
          /\ WalletOf(a) \notin DOMAIN knownAddrMap
          /\ a \notin CountedIds
          /\ grandTotals.TotalDeals = 1
          /\ b \in CountedIds

(***************************************************************************)
(* C5: a project one of whose entries in the project list carries the      *)
(* dataset tag "landsat-8" has no deal list, is not among the seen         *)
(* projects and has no counted deal, for every project list.               *)
(***************************************************************************)
C5_DisqualifiedContributeNothing ==
    \A i \in 1..Len(env.projList) :
       (\E j \in 1..Len(env.projList[i].curatedDataset) :
            env.projList[i].curatedDataset[j] = "landsat-8") =>
          LET p == env.projList[i].project
          IN /\ p \notin DOMAIN projDealLists
             /\ p \notin grandTotals.seenProject
             /\ p \in DOMAIN projStats => projStats[p].NumDeals = 0

(***************************************************************************)
(* C6: a finished run's outputs (the totals, the project statistics, each  *)
(* project's deal list in its order, the recovered deals in their order)   *)
(* are those of a run over the same inputs under any other order of        *)
(* iteration of the deal map.                                              *)
(***************************************************************************)
InitialPassState ==
    [resolvedWallets |-> EmptyMap, resolverCalls |-> EmptyMap,
     recoveredDeals |-> << >>,
     projStats |-> EmptyMap, projDealLists |-> EmptyMap,
     grandTotals |-> NewGrandTotals]

RECURSIVE RunPass(_, _)
RunPass(st, list) ==
    IF list = << >> THEN st
    ELSE RunPass(ClassifyStep(st, Head(list)), Tail(list))

\* what a run that visits the deal map in the given order writes
OutputsUnder(order) ==
    LET list == SortedDealList(FilterLive(order, env.deals, env.height), env.deals)
        st == RunPass(InitialPassState, list)
    IN [totals |-> ExportedTotals(FinalizeTotals(st.grandTotals)),
        stats |-> [p \in DOMAIN st.projStats |->
                      ExportedProjectStats(FinalizeProjectStats(st.projStats[p]))],
        lists |-> [p \in DOMAIN st.projDealLists |->
                      SortedProjectList(st.projDealLists[p])],
        recovered |-> st.recoveredDeals]

WrittenOutputs ==
    [totals |-> files[BasicStatsFile].Payload,
     stats |-> files[ClientStatsFile].Payload,
     lists |-> [p \in DOMAIN projDealLists |-> files[DealListFile(p)].Payload],
     recovered |-> files[RecoveryListFile].Payload]

C6_Deterministic ==
    pc = "done" =>
       \A order \in MapOrders(env.deals) : OutputsUnder(order) = WrittenOutputs

(***************************************************************************)
(* C7: from the sort on, orderedDealList holds each live deal once, the    *)
(* key (sector start, proposal start, parsed id) never falls from one      *)
(* entry to the next, and of two entries whose ids are different numbers   *)
(* the earlier has the strictly smaller key.                               *)
(***************************************************************************)
SortKey(id) ==
    <<env.deals[id].SectorStartEpoch, env.deals[id].StartEpoch, ParseIntOrZero(id)>>

LexLess(a, b) ==
    \/ a[1] < b[1]
    \/ a[1] = b[1] /\ a[2] < b[2]
    \/ a[1] = b[1] /\ a[2] = b[2] /\ a[3] < b[3]

IsNumericId(id) ==
    /\ id # << >>
    /\ \A i \in 1..Len(id) :
          id[i] \in {"0", "1", "2", "3", "4", "5", "6", "7", "8", "9"}

C7_OrderingLaw ==
    (pc = "classify" \/ AfterPass) =>
       LET n == Len(orderedDealList)
           key(i) == SortKey(orderedDealList[i])
       IN /\ Range(orderedDealList) = LiveIds
          /\ n = Cardinality(LiveIds)
          /\ \A i \in 1..(n - 1) : LexLess(key(i), key(i + 1)) \/ key(i) = key(i + 1)
          /\ \A i, j \in 1..n :
                (/\ i < j
                 /\ IsNumericId(orderedDealList[i])
                 /\ IsNumericId(orderedDealList[j])
                 /\ key(i)[3] # key(j)[3]) => LexLess(key(i), key(j))

\* the pass is about to start on a list in which deal 2 precedes deal 10,
\* the two alike in both epochs
C7_Witness ==
    /\ pc = "classify"
    /\ idx = 1
    /\ Len(orderedDealList) >= 2
    /\ orderedDealList[1] = <<"2">>
    /\ orderedDealList[2] = <<"1", "0">>
    /\ env.deals[<<"2">>].SectorStartEpoch = env.deals[<<"1", "0">>].SectorStartEpoch
    /\ env.deals[<<"2">>].StartEpoch = env.deals[<<"1", "0">>].StartEpoch

(***************************************************************************)
(* C8: every written deal list is in descending order of piece size, and   *)
(* of two of its deals of one size the one the pass appended first (the    *)
(* earlier in orderedDealList) comes first.                                *)
(***************************************************************************)
C8_StableDescending ==
    \A p \in DOMAIN projDealLists :
       DealListFile(p) \in DOMAIN files =>
          LET dl == files[DealListFile(p)].Payload
          IN \A i, j \in 1..Len(dl) :
                i < j =>
                   /\ dl[i].PaddedSize >= dl[j].PaddedSize
                   /\ dl[i].PaddedSize = dl[j].PaddedSize =>
                         PosInOrder(dl[i].DealID) < PosInOrder(dl[j].DealID)

(***************************************************************************)
(* C9: a step of the pass on a deal whose handle resolves to a wallet of   *)
(* the project list, the temporary exclusion aside, with sector start      *)
(* equal to the phase start, lasting exactly 360 days of epochs, and with  *)
(* fewer than 9 deals of its project and piece cid seen before it, adds 1  *)
(* to the deal count and the piece size to the byte sum of the run, of the *)
(* project and of the wallet, and appends the deal to the project's list.  *)
(***************************************************************************)
\* deal count and byte sum of project p, and of its wallet w, in the map
\* stats of project statistics; 0 while the entry is absent
ProjectCountIn(stats, p) ==
    IF p \in DOMAIN stats THEN <<stats[p].NumDeals, stats[p].DataSize>> ELSE <<0, 0>>

WalletCountIn(stats, p, w) ==
    IF p \in DOMAIN stats /\ w \in DOMAIN stats[p].ClientStats
    THEN <<stats[p].ClientStats[w].NumDeals, stats[p].ClientStats[w].DataSize>>
    ELSE <<0, 0>>

DealListIn(lists, p) == IF p \in DOMAIN lists THEN lists[p] ELSE << >>

C9_BoundaryCounted ==
    [][(/\ pc = "classify"
        /\ idx <= Len(orderedDealList)
        /\ LET id == orderedDealList[idx]
               w == WalletOf(id)
           IN /\ w # NoKey
              /\ w \in DOMAIN knownAddrMap
              /\ ~(w = tempExcludedWallet
                     /\ env.deals[id].SectorStartEpoch >= recoveryStart)
              /\ env.deals[id].SectorStartEpoch = currentPhaseStart
              /\ Duration(id) = 360 * EpochsInDay
              /\ AllTimeTally(knownAddrMap[w], env.deals[id].PieceCID) + 1 < 10)
       =>
       LET id == orderedDealList[idx]
           w == WalletOf(id)
           p == knownAddrMap[w]
           size == env.deals[id].PieceSize
           before == DealListIn(projDealLists, p)
           after == DealListIn(projDealLists', p)
       IN /\ grandTotals'.TotalDeals = grandTotals.TotalDeals + 1
          /\ grandTotals'.TotalBytes = grandTotals.TotalBytes + size
          /\ ProjectCountIn(projStats', p)[1] = ProjectCountIn(projStats, p)[1] + 1
          /\ ProjectCountIn(projStats', p)[2] = ProjectCountIn(projStats, p)[2] + size
          /\ WalletCountIn(projStats', p, w)[1] = WalletCountIn(projStats, p, w)[1] + 1
          /\ WalletCountIn(projStats', p, w)[2] = WalletCountIn(projStats, p, w)[2] + size
          /\ Len(after) = Len(before) + 1
          /\ SubSeq(after, 1, Len(before)) = before
          /\ after[Len(after)].DealID = id
          /\ after[Len(after)].PaddedSize = size]_vars

\* a counted deal that started at the phase start and lasts exactly 360 days
C9_Witness ==
    \E id \in CountedIds :
       /\ env.deals[id].SectorStartEpoch = currentPhaseStart
       /\ Duration(id) = 360 * EpochsInDay
       /\ grandTotals.TotalBytes = env.deals[id].PieceSize

(***************************************************************************)
(* C10: the deal count of the run equals the number of counted deals, the  *)
(* sum of the projects' deal counts, the sum of the wallets' deal counts   *)
(* and the sum of the lengths of the deal lists; no deal id is twice in    *)
(* the deal lists; and the byte sum of the run equals the sum of the       *)
(* projects' and the sum of the wallets' byte sums.                        *)
(***************************************************************************)
C10_CountedOnce ==
    LET projects == DOMAIN projStats
        walletDeals == [p \in projects |->
                           SumOver([w \in DOMAIN projStats[p].ClientStats |->
                                       projStats[p].ClientStats[w].NumDeals],
                                   DOMAIN projStats[p].ClientStats)]
        walletBytes == [p \in projects |->
                           SumOver([w \in DOMAIN projStats[p].ClientStats |->
                                       projStats[p].ClientStats[w].DataSize],
                                   DOMAIN projStats[p].ClientStats)]
        listed == SumOver([p \in DOMAIN projDealLists |-> Len(projDealLists[p])],
                          DOMAIN projDealLists)
    IN /\ grandTotals.TotalDeals = Cardinality(CountedIds)
       /\ grandTotals.TotalDeals = listed
       /\ grandTotals.TotalDeals =
             SumOver([p \in projects |-> projStats[p].NumDeals], projects)
       /\ grandTotals.TotalDeals = SumOver(walletDeals, projects)
       /\ grandTotals.TotalBytes =
             SumOver([p \in projects |-> projStats[p].DataSize], projects)
       /\ grandTotals.TotalBytes = SumOver(walletBytes, projects)
       /\ grandTotals.TotalBytes = SumOver(SizeOf, CountedIds)

\* a finished run that counted deals of two wallets of one project and of
\* a second project
C10_Witness ==
    /\ pc = "done"
    /\ grandTotals.TotalDeals >= 2
    /\ \E p \in DOMAIN projStats : Cardinality(DOMAIN projStats[p].ClientStats) = 2

(***************************************************************************)
(* C11: a run that stops because the project list cannot be fetched,       *)
(* because the project list yields no wallet, or because the query of the  *)
(* deals fails, has created no output artifact: neither the output         *)
(* directory nor a file in it.                                             *)
(***************************************************************************)
\* the run passed the argument check and the test of the target directory
RunBegan == ArgsOk(env.args) /\ ~env.outDirExists

\* the project list yields no wallet
NoEligibleProject == MapLen(ParseProjectList(env.projList, EmptyMap)) = 0

\* the run stopped for one of the three reasons
RunFatalStop ==
    /\ pc = "failed"
    /\ RunBegan
    /\ \/ env.fault = "projlist"
       \/ env.fault # "projlist" /\ NoEligibleProject
       \/ env.fault = "deals" /\ ~NoEligibleProject

C11_NoPartialOutput == RunFatalStop => DOMAIN files = {}

(***************************************************************************)
(* C12: a deal whose client handle the resolver fails on is dropped and    *)
(* the run goes on: when the deal pass has ended, the resolved wallets,    *)
(* the recovered deals, the statistics of every project, the deal lists    *)
(* and the totals are those of the pass over the other deals alone, each   *)
(* under the wallet it resolved to; and a run that failed never began the  *)
(* pass.                                                                   *)
(***************************************************************************)
\* the deal pass has ended and nothing was emitted yet
PassEnded ==
    /\ pc = "lists"
    /\ \A p \in DOMAIN projDealLists : DealListFile(p) \notin DOMAIN files

Resolvable(id) == WalletOf(id) # NoKey

\* orderedDealList without the deals the resolver failed on
ResolvableDeals == SelectSeq(orderedDealList, Resolvable)

\* the wallet of every handle that one of those deals carries
WalletsOfResolvable ==
    [h \in {env.deals[id].Client : id \in Range(ResolvableDeals)} |->
        WalletOf(CHOOSE id \in Range(ResolvableDeals) : env.deals[id].Client = h)]

\* the pass over those deals, no call of the resolver failing
PassOverResolvable ==
    RunPass([InitialPassState EXCEPT !.resolvedWallets = WalletsOfResolvable],
            ResolvableDeals)

C12_UnresolvedDropped ==
    /\ PassEnded =>
          /\ resolvedWallets = PassOverResolvable.resolvedWallets
          /\ recoveredDeals = PassOverResolvable.recoveredDeals
          /\ projStats = PassOverResolvable.projStats
          /\ projDealLists = PassOverResolvable.projDealLists
          /\ grandTotals = PassOverResolvable.grandTotals
          /\ \A id \in Range(orderedDealList) :
                ~Resolvable(id) => id \notin RecoveredIds \cup CountedIds
    /\ pc = "failed" => orderedDealList = << >> /\ resolverCalls = EmptyMap

\* the pass ended on a list with a deal the resolver failed on and a deal
\* that was counted, the two of one handle
C12_Witness ==
    /\ PassEnded
    /\ \E a, b \in Range(orderedDealList) :
          /\ ~Resolvable(a)
          /\ env.deals[a].Client = env.deals[b].Client
          /\ b \in CountedIds

(***************************************************************************)
(* C13: a run called with exactly two non-empty arguments, the first one   *)
(* naming no existing directory, passes the argument check: once it has    *)
(* left its first step the output directory is created.                    *)
(***************************************************************************)
DocumentedInvocation ==
    /\ Len(env.args) = 2
    /\ env.args[1] # ""
    /\ env.args[2] # ""
    /\ ~env.outDirExists

C13_DocumentedInvocationAccepted ==
    (DocumentedInvocation /\ pc # "start") => OutDir \in DOMAIN files

(***************************************************************************)
(* C14: a deal that the cap on deals of one piece cid excludes leaves the  *)
(* totals of the run alone: after the deal pass the seen projects are the  *)
(* projects with a counted deal, and the written count of unique projects  *)
(* is their number.                                                        *)
(***************************************************************************)
ProjectsWithCountedDeal == {p \in DOMAIN projDealLists : CountedIdsOf(p) # {}}

C14_OnlyCountedDealsInTotals ==
    /\ AfterPass => grandTotals.seenProject = ProjectsWithCountedDeal
    /\ pc = "done" =>
          files[BasicStatsFile].Payload.UniqueProjects =
             Cardinality(ProjectsWithCountedDeal)

(***************************************************************************)
(* C15: after the deal pass, the all-time tally of a project for a piece   *)
(* cid is the number of live deals with that piece cid whose handle        *)
(* resolved to a wallet of the project and that the temporary exclusion    *)
(* did not stop, started before the phase or shorter than 360 days or not; *)
(* and such a deal with nine or more such deals ahead of it in the order   *)
(* of the pass is not counted.                                             *)
(***************************************************************************)
\* the deals of project p and piece cid c that reach the project lookup
ReachLookup(p, c) ==
    {id \in MembersOf(p, c) :
        ~(/\ WalletOf(id) = tempExcludedWallet
          /\ env.deals[id].SectorStartEpoch >= recoveryStart)}

PieceCids == {env.deals[id].PieceCID : id \in DealIds}

AheadOf(id, S) == {o \in S : PosInOrder(o) < PosInOrder(id)}

C15_TallyCountsEveryVisibleDeal ==
    AfterPass =>
       \A p \in ListedProjects : \A c \in PieceCids :
          /\ AllTimeTally(p, c) = Cardinality(ReachLookup(p, c))
          /\ \A id \in ReachLookup(p, c) :
                Cardinality(AheadOf(id, ReachLookup(p, c))) >= 9
                   => id \notin CountedIds

\* a finished run in which nine short deals of a project and piece cid come
\* first and a tenth deal, in phase and long enough, is not counted
C15_Witness ==
    /\ pc = "done"
    /\ \E p \in ListedProjects : \E c \in PieceCids :
          \E id \in ReachLookup(p, c) :
             /\ OtherwiseQualifying(id)
             /\ Cardinality(AheadOf(id, ReachLookup(p, c))) = 9
             /\ \A o \in AheadOf(id, ReachLookup(p, c)) :
                   /\ env.deals[o].SectorStartEpoch >= currentPhaseStart
                   /\ Duration(o) < 360 * EpochsInDay
             /\ AllTimeTally(p, c) = 10
             /\ id \notin CountedIds

\* the same with nine deals that started before the phase
C15_WitnessPrePhase ==
    /\ pc = "done"
    /\ \E p \in ListedProjects : \E c \in PieceCids :
          \E id \in ReachLookup(p, c) :
             /\ OtherwiseQualifying(id)
             /\ Cardinality(AheadOf(id, ReachLookup(p, c))) = 9
             /\ \A o \in AheadOf(id, ReachLookup(p, c)) :
                   env.deals[o].SectorStartEpoch < currentPhaseStart
             /\ id \notin CountedIds

(***************************************************************************)
(* C16: after the deal pass the recovered deals are, once each and in the  *)
(* order of the pass, the live deals whose handle resolved to a wallet of  *)
(* the recovery list, whose sector started at or after the recovery start  *)
(* and that last strictly more than 499 days of epochs; each carries       *)
(* recovery type 1.                                                        *)
(***************************************************************************)
MeetsRecovery(id) ==
    /\ Resolvable(id)
    /\ WalletOf(id) \in Range(env.restoreList)
    /\ env.deals[id].SectorStartEpoch >= recoveryStart
    /\ Duration(id) > 499 * EpochsInDay

C16_RecoveredExactly ==
    AfterPass =>
       /\ [i \in 1..Len(recoveredDeals) |-> recoveredDeals[i].DealID]
             = SelectSeq(orderedDealList, MeetsRecovery)
       /\ \A i \in 1..Len(recoveredDeals) :
             /\ recoveredDeals[i].RecoveryType = 1
             /\ recoveredDeals[i].ClientAddress = WalletOf(recoveredDeals[i].DealID)

\* a finished run over a deal of a recovery wallet that lasts exactly 499
\* days and is not recovered
C16_Witness ==
    /\ pc = "done"
    /\ \E id \in Range(orderedDealList) :
          /\ Resolvable(id)
          /\ WalletOf(id) \in Range(env.restoreList)
          /\ env.deals[id].SectorStartEpoch >= recoveryStart
          /\ Duration(id) = 499 * EpochsInDay
          /\ id \notin RecoveredIds

\* a finished run that recovered two deals
C16_WitnessRecovered == pc = "done" /\ Len(recoveredDeals) = 2

(***************************************************************************)
(* C17: after the deal pass, the statistics of every project, the deal     *)
(* lists and the totals are those of the pass without the deals of the     *)
(* wallet f17ia7m5mvizrdug3sqtevqw3tifiqvxqr3kdaeuq whose sector started   *)
(* at or after the recovery start; a deal of that wallet whose sector      *)
(* started earlier and that passes the gates is counted; and with a phase  *)
(* start at or after the recovery start the wallet has no counted deal.    *)
(***************************************************************************)
HitByTempExclusion(id) ==
    /\ WalletOf(id) = tempExcludedWallet
    /\ env.deals[id].SectorStartEpoch >= recoveryStart

NotHitAndResolvable(id) == Resolvable(id) /\ ~HitByTempExclusion(id)

\* the pass over the resolved deals that the exclusion does not hit
PassWithoutTempExcluded ==
    RunPass([InitialPassState EXCEPT !.resolvedWallets = WalletsOfResolvable],
            SelectSeq(orderedDealList, NotHitAndResolvable))

TempWalletDeals == {id \in Range(orderedDealList) : WalletOf(id) = tempExcludedWallet}

C17_TempExclusion ==
    /\ PassEnded =>
          /\ projStats = PassWithoutTempExcluded.projStats
          /\ projDealLists = PassWithoutTempExcluded.projDealLists
          /\ grandTotals = PassWithoutTempExcluded.grandTotals
    /\ AfterPass =>
          /\ \A id \in TempWalletDeals :
                (/\ env.deals[id].SectorStartEpoch < recoveryStart
                 /\ env.deals[id].SectorStartEpoch >= currentPhaseStart
                 /\ Duration(id) >= 360 * EpochsInDay
                 /\ tempExcludedWallet \in DOMAIN knownAddrMap
                 /\ Cardinality(AheadOf(id,
                        ReachLookup(knownAddrMap[tempExcludedWallet],
                                    env.deals[id].PieceCID))) < 9)
                   => id \in CountedIds
          /\ currentPhaseStart >= recoveryStart => TempWalletDeals \cap CountedIds = {}

\* a finished run in which a deal of the wallet, hit by the exclusion and
\* otherwise passing every gate, is recovered and not counted
C17_Witness ==
    /\ pc = "done"
    /\ \E id \in TempWalletDeals :
          /\ HitByTempExclusion(id)
          /\ env.deals[id].SectorStartEpoch >= currentPhaseStart
          /\ Duration(id) >= 360 * EpochsInDay
          /\ tempExcludedWallet \in DOMAIN knownAddrMap
          /\ id \in RecoveredIds
          /\ id \notin CountedIds
          /\ projStats = EmptyMap

\* a finished run in which a deal of the wallet that started before the
\* recovery start is counted
C17_WitnessEarlier ==
    /\ pc = "done"
    /\ \E id \in TempWalletDeals :
          /\ env.deals[id].SectorStartEpoch < recoveryStart
          /\ id \in CountedIds

(***************************************************************************)
(* C18: the derived fields stay at zero until the deal pass has ended, and *)
(* what is written agrees with the tracking structures: the four unique    *)
(* counts of basic_stats.json are the sizes of the seen sets, and in       *)
(* client_stats.json each project's numbers of piece cids and providers    *)
(* are the sizes of its maps, its two maxima are the largest byte sum per  *)
(* provider and the largest count per piece cid, and each wallet's numbers *)
(* of piece cids and providers are the sizes of its sets.                  *)
(***************************************************************************)
DerivedTotalsUnset ==
    /\ grandTotals.UniqueCids = 0
    /\ grandTotals.UniqueClients = 0
    /\ grandTotals.UniqueProviders = 0
    /\ grandTotals.UniqueProjects = 0

DerivedStatsUnset ==
    \A p \in DOMAIN projStats :
       /\ projStats[p].NumCids = 0
       /\ projStats[p].NumProviders = 0
       /\ projStats[p].HighestCidDealCount = 0
       /\ projStats[p].DataSizeMaxProvider = 0
       /\ \A w \in DOMAIN projStats[p].ClientStats :
             /\ projStats[p].ClientStats[w].NumCids = 0
             /\ projStats[p].ClientStats[w].NumProviders = 0

BasicStatsWritten == pc \in {"recovery", "clientstats", "done"}

ClientStatsWritten == pc = "done"

WrittenTotalsAgree ==
    LET out == files[BasicStatsFile].Payload
    IN /\ out.UniqueCids = Cardinality(grandTotals.seenPieceCid)
       /\ out.UniqueClients = Cardinality(grandTotals.seenClient)
       /\ out.UniqueProviders = Cardinality(grandTotals.seenProvider)
       /\ out.UniqueProjects = Cardinality(grandTotals.seenProject)

WrittenStatsAgree ==
    LET out == files[ClientStatsFile].Payload
    IN /\ DOMAIN out = DOMAIN projStats
       /\ \A p \in DOMAIN projStats :
             LET ps == projStats[p]
             IN /\ out[p].NumCids = Cardinality(DOMAIN ps.timesSeenPieceCid)
                /\ out[p].NumProviders = Cardinality(DOMAIN ps.dataPerProvider)
                /\ \A m \in DOMAIN ps.dataPerProvider :
                      ps.dataPerProvider[m] <= out[p].DataSizeMaxProvider
                /\ \/ DOMAIN ps.dataPerProvider = {} /\ out[p].DataSizeMaxProvider = 0
                   \/ \E m \in DOMAIN ps.dataPerProvider :
                         ps.dataPerProvider[m] = out[p].DataSizeMaxProvider
                /\ \A c \in DOMAIN ps.timesSeenPieceCid :
                      ps.timesSeenPieceCid[c] <= out[p].HighestCidDealCount
                /\ \/ DOMAIN ps.timesSeenPieceCid = {} /\ out[p].HighestCidDealCount = 0
                   \/ \E c \in DOMAIN ps.timesSeenPieceCid :
                         ps.timesSeenPieceCid[c] = out[p].HighestCidDealCount
                /\ DOMAIN out[p].ClientStats = DOMAIN ps.ClientStats
                /\ \A w \in DOMAIN ps.ClientStats :
                      /\ out[p].ClientStats[w].NumCids
                            = Cardinality(ps.ClientStats[w].cids)
                      /\ out[p].ClientStats[w].NumProviders
                            = Cardinality(ps.ClientStats[w].providers)

C18_Finalization ==
    /\ ~BasicStatsWritten => DerivedTotalsUnset
    /\ ~ClientStatsWritten => DerivedStatsUnset
    /\ BasicStatsWritten => WrittenTotalsAgree
    /\ ClientStatsWritten => WrittenStatsAgree

\* a finished run that wrote two providers and two piece cids for a project
C18_Witness ==
    /\ pc = "done"
    /\ \E p \in DOMAIN projStats :
          /\ files[ClientStatsFile].Payload[p].NumProviders = 2
          /\ files[ClientStatsFile].Payload[p].NumCids = 2
          /\ files[BasicStatsFile].Payload.UniqueProviders = 2

\* a finished run whose project has more deals of a piece cid in its
\* all-time tally than counted
C18_WitnessCapped ==
    /\ pc = "done"
    /\ \E p \in DOMAIN projStats :
          /\ files[ClientStatsFile].Payload[p].HighestCidDealCount = 9
          /\ projStats[p].timesSeenPieceCidAllTime[CidA] = 11

(***************************************************************************)
(* C19: when two or more live deals with equal sector start and equal      *)
(* proposal start epochs have ids that do not parse as integers, the       *)
(* sorted list of the deals is the same whatever the order in which the    *)
(* deal map was visited.                                                   *)
(***************************************************************************)
UnparsedTie ==
    \E a, b \in LiveIds :
       /\ a # b
       /\ ~IsNumericId(a)
       /\ ~IsNumericId(b)
       /\ env.deals[a].SectorStartEpoch = env.deals[b].SectorStartEpoch
       /\ env.deals[a].StartEpoch = env.deals[b].StartEpoch

Sorted == pc \in {"classify", "lists", "recovery", "clientstats", "done"}

C19_ParseFailuresDeterministic ==
    (Sorted /\ UnparsedTie) =>
       \A order \in MapOrders(env.deals) :
          SortedDealList(FilterLive(order, env.deals, env.height), env.deals)
             = orderedDealList

(***************************************************************************)
(* C20: for every client handle, the resolver has been called once for     *)
(* each deal of the handle that the pass visited up to and including the   *)
(* first one it answered, and never after; resolvedWallets holds that      *)
(* first answer and nothing for a handle it never answered; and after the  *)
(* pass every wallet of a project has one entry, which counts the deals of *)
(* all handles that resolved to it.                                        *)
(***************************************************************************)
Handles == DOMAIN env.accountKey

\* the deals of handle h that the pass has visited
VisitedOf(h) ==
    {i \in 1..Len(orderedDealList) :
        i < idx /\ env.deals[orderedDealList[i]].Client = h}

\* the calls the cache leaves for k visited deals of handle h
CallsNeeded(h, k) ==
    IF env.accountKey[h] # NoKey THEN Min(k, 1)
    ELSE IF env.laterKey[h] # NoKey THEN Min(k, 2)
    ELSE k

FirstAnswer(h) ==
    IF env.accountKey[h] # NoKey THEN env.accountKey[h] ELSE env.laterKey[h]

C20_ResolutionCache ==
    /\ \A h \in Handles :
          LET k == Cardinality(VisitedOf(h))
          IN /\ MapGetInt(resolverCalls, h) = CallsNeeded(h, k)
             /\ h \in DOMAIN resolvedWallets
                   <=> (k >= 1 /\ StateAccountKey(h, CallsNeeded(h, k)) # NoKey)
             /\ h \in DOMAIN resolvedWallets => resolvedWallets[h] = FirstAnswer(h)
    /\ AfterPass =>
          \A p \in DOMAIN projStats :
             /\ DOMAIN projStats[p].ClientStats
                   = {WalletOf(id) : id \in CountedIdsOf(p)}
             /\ \A w \in DOMAIN projStats[p].ClientStats :
                   projStats[p].ClientStats[w].NumDeals
                      = Cardinality({id \in CountedIdsOf(p) : WalletOf(id) = w})

\* a finished run over three deals: the resolver failed on the first deal of
\* a handle and answered the second, and a deal of another handle resolved to
\* the same wallet; the wallet's entry counts two deals
C20_Witness ==
    /\ pc = "done"
    /\ \E h, g \in Handles :
          /\ h # g
          /\ MapGetInt(resolverCalls, h) = 2
          /\ Cardinality(VisitedOf(g)) = 1
          /\ {h, g} \subseteq DOMAIN resolvedWallets
          /\ resolvedWallets[h] = resolvedWallets[g]
          /\ \E p \in DOMAIN projStats :
                /\ resolvedWallets[h] \in DOMAIN projStats[p].ClientStats
                /\ projStats[p].ClientStats[resolvedWallets[h]].NumDeals = 2

\* a finished run over three deals of one handle: the first answer is kept
\* though a later call would answer another wallet, and the resolver was
\* called once
C20_WitnessFirstWins ==
    /\ pc = "done"
    /\ \E h \in Handles :
          /\ Cardinality(VisitedOf(h)) = 3
          /\ env.accountKey[h] # NoKey
          /\ env.laterKey[h] \notin {NoKey, env.accountKey[h]}
          /\ MapGetInt(resolverCalls, h) = 1

====
